---- MODULE Spec2Model ----
(***************************************************************************)
(* A model of arrow/src/array/builder/union_builder.rs: the UnionBuilder   *)
(* (dense and sparse layouts), its per-field FieldData accumulators, the   *)
(* append / append_null / build operations.                                *)
(*                                                                         *)
(* Rust's Option<X> is modelled as a sequence of length at most one:       *)
(* <<>> is None and <<x>> is Some(x).  A HashMap<String, FieldData> is a   *)
(* function whose DOMAIN is the set of keys present.                       *)
(***************************************************************************)
EXTENDS Integers, Sequences, FiniteSets, TLC

\* ---------------------------------------------------------------- bounds
\* Largest number of rows (successful appends) explored.
MaxRows == 3

\* Largest number of fields explored by the specification of many fields: enough
\* for the field count to pass the largest i8.
MaxWideFields == 130

\* The field names, primitive types and native values the calls draw from.
Names == {"a", "b"}
Types == {"Int32", "Float64"}
Values == {1, 2}

\* ------------------------------------------------------- integer widths
\* `x as i8` of a non-negative usize: keep the low 8 bits, two's complement.
ToI8(n) == LET m == n % 256 IN IF m >= 128 THEN m - 256 ELSE m

\* `x as i32` of a non-negative usize below 2^32: values up to i32::MAX are
\* kept, larger ones wrap to n - 2^32 (written without a literal above i32::MAX).
I32Max == 2147483647
ToI32(n) == IF n <= I32Max THEN n ELSE ((n - I32Max) - 1) - I32Max - 1

\* T::Native of the primitive type T (the element type of the BufferBuilder).
Native(T) == IF T = "Int32" THEN "i32" ELSE "f64"

\* Option<T::Native> arguments of append_option.
OptValues == {<<>>} \cup {<<v>> : v \in Values}

\* ------------------------------------------------------------ FieldData
\* FieldData::new::<T>(type_id, data_type)
FieldData_new(T, type_id, data_type) ==
    [type_id |-> type_id,
     data_type |-> data_type,
     slots |-> 0,
     native |-> Native(T),
     values_buffer |-> <<>>,
     null_buffer_builder |-> <<>>]

\* FieldData::append_value::<T>(v)
FieldData_append_value(fd, v) ==
    [fd EXCEPT !.values_buffer = Append(@, v),
               !.null_buffer_builder = Append(@, TRUE),
               !.slots = @ + 1]

\* An append_null that forgets to advance the value buffer.
FieldData_append_null_NoAdvance(fd) ==
    [fd EXCEPT !.null_buffer_builder = Append(@, FALSE),
               !.slots = @ + 1]

\* FieldData::append_null(): BufferBuilder::advance(1) adds one zeroed value.
FieldData_append_null(fd) ==
    [fd EXCEPT !.values_buffer = Append(@, 0),
               !.null_buffer_builder = Append(@, FALSE),
               !.slots = @ + 1]

\* A back-fill loop that never runs: a new sparse field starts with no slots.
AppendNulls_NoBackfill(fd, n) == fd

\* `for _ in 0..n { fd.append_null(); }`
RECURSIVE AppendNulls(_, _)
AppendNulls(fd, n) ==
    IF n = 0 THEN fd ELSE AppendNulls(FieldData_append_null(fd), n - 1)

\* ---------------------------------------------------------------- state
VARIABLES
    len,                   \* UnionBuilder.len
    fields,                \* UnionBuilder.fields : name -> FieldData
    type_id_builder,       \* UnionBuilder.type_id_builder (the i8 pushed so far)
    value_offset_builder,  \* UnionBuilder.value_offset_builder : Option<seq of i32>
    pc,                    \* "Open" until build consumes the builder, then "Consumed"
    result,                \* outcome of the last call: "None", "Ok" or "Err"
    built,                 \* Option of the arguments build hands to UnionArray::try_new
    rows                   \* history: the arguments of each call that returned Ok, in order

vars == <<len, fields, type_id_builder, value_offset_builder, pc, result, built, rows>>

\* A removal that, when the key is present, takes every entry out with it.
MapRemove_Clear(m, name) == IF name \in DOMAIN m THEN <<>> ELSE m

\* HashMap::remove(name): the map without the key.
MapRemove(m, name) == [k \in (DOMAIN m) \ {name} |-> m[k]]

\* HashMap::insert(name, fd)
MapInsert(m, name, fd) ==
    [k \in (DOMAIN m) \cup {name} |-> IF k = name THEN fd ELSE m[k]]

\* UnionBuilder::with_capacity_dense / with_capacity_sparse
Init ==
    /\ len = 0
    /\ fields = <<>>
    /\ type_id_builder = <<>>
    /\ value_offset_builder \in {<<>>, << <<>> >>}
    /\ pc = "Open"
    /\ result = "None"
    /\ built = <<>>
    /\ rows = <<>>

IsDense == value_offset_builder # <<>>

\* An append that forgets to record the discriminant of the row.
TypeIdAppend_Missing(buf, type_id) == buf

\* self.type_id_builder.append(field_data.type_id)
TypeIdAppend(buf, type_id) == Append(buf, type_id)

\* match &mut self.value_offset_builder: the dense arm pushes `slots as i32`,
\* the sparse arm has no offset builder to push to.
OffsetAppend(opt, slots) ==
    IF opt # <<>> THEN << Append(opt[1], ToI32(slots)) >> ELSE <<>>

\* A sparse arm that leaves the other fields as they are.
PadSiblings_None(m) == m

\* The sparse arm: `for (_, fd) in self.fields.iter_mut() { fd.append_null(); }`
\* over the fields left in the map (all bar the one being appended to).
PadSiblings(m) == [k \in DOMAIN m |-> FieldData_append_null(m[k])]

\* A type check that never reports a mismatch.
TypeMismatch_Never(data, T) == FALSE

\* A type check that reports a mismatch for every existing field.
TypeMismatch_Always(data, T) == TRUE

\* `data.data_type != T::DATA_TYPE`
TypeMismatch(data, T) == data.data_type # T

\* `.downcast_mut::<BufferBuilder<T::Native>>()` gives Some: the erased
\* builder of fd is a BufferBuilder of T's native type.
DowncastOk(fd, T) == fd.native = Native(T)

\* UnionBuilder::append_option::<T>(type_name, v), explored while the builder
\* holds fewer than `limit` rows.
append_option_upto(type_name, T, v, limit) ==
    LET removed == MapRemove(fields, type_name)      \* self.fields after remove()
        existed == type_name \in DOMAIN fields
    IN
    /\ pc = "Open"
    /\ IF existed /\ TypeMismatch(fields[type_name], T)
       THEN \* early return of the error; the entry taken out by remove() is dropped
            /\ fields' = removed
            /\ result' = "Err"
            /\ UNCHANGED <<len, type_id_builder, value_offset_builder, pc, built, rows>>
       ELSE LET field_data ==
                    IF existed THEN fields[type_name]
                    ELSE IF IsDense
                         THEN FieldData_new(T, ToI8(Cardinality(DOMAIN removed)), T)
                         ELSE AppendNulls(
                                FieldData_new(T, ToI8(Cardinality(DOMAIN removed)), T),
                                len)
                    padded == IF IsDense THEN removed ELSE PadSiblings(removed)
                    written == IF v # <<>>
                               THEN FieldData_append_value(field_data, v[1])
                               ELSE FieldData_append_null(field_data)
                IN
                /\ len < limit
                /\ type_id_builder' = TypeIdAppend(type_id_builder, field_data.type_id)
                /\ value_offset_builder' =
                       OffsetAppend(value_offset_builder, field_data.slots)
                /\ IF v # <<>> /\ ~DowncastOk(field_data, T)
                   THEN \* expect("Tried to append unexpected type") aborts the call:
                        \* the field taken out of the map is lost, len is not advanced
                        /\ fields' = padded
                        /\ pc' = "Panicked"
                        /\ UNCHANGED <<len, result, built, rows>>
                   ELSE /\ fields' = MapInsert(padded, type_name, written)
                        /\ len' = len + 1
                        /\ result' = "Ok"
                        /\ rows' = Append(rows, [name |-> type_name, type |-> T, v |-> v,
                                                 slot |-> field_data.slots])
                        /\ UNCHANGED <<pc, built>>

\* UnionBuilder::append_option::<T>(type_name, v)
append_option(type_name, T, v) == append_option_upto(type_name, T, v, MaxRows)

\* UnionBuilder::append::<T>(type_name, v)
append(type_name, T, v) == append_option(type_name, T, <<v>>)

\* UnionBuilder::append_null::<T>(type_name)
append_null(type_name, T) == append_option(type_name, T, <<>>)

\* --------------------------------------------------------------- build
\* The orders in which HashMap::into_iter may yield the keys of m.
IterOrders(m) ==
    {o \in [1..Cardinality(DOMAIN m) -> DOMAIN m] :
        \A i, j \in DOMAIN o : i # j => o[i] # o[j]}

\* One step of the stable sort: x goes after every element whose type id is
\* not greater than its own.
RECURSIVE InsertByTypeId(_, _)
InsertByTypeId(x, s) ==
    IF s = <<>> THEN <<x>>
    ELSE IF s[Len(s)].type_id <= x.type_id
         THEN Append(s, x)
         ELSE Append(InsertByTypeId(x, SubSeq(s, 1, Len(s) - 1)), s[Len(s)])

\* children.sort_by(|a, b| a.0.partial_cmp(&b.0)): a stable sort on the type id.
RECURSIVE SortByTypeId(_)
SortByTypeId(s) ==
    IF s = <<>> THEN <<>>
    ELSE InsertByTypeId(s[Len(s)], SortByTypeId(SubSeq(s, 1, Len(s) - 1)))

\* The (type_id, (Field, array)) pair the loop of build pushes for one field:
\* the child array is the finished value buffer, its length and validity bits.
ChildOf(name, fd) ==
    [type_id |-> fd.type_id,
     name |-> name,
     data_type |-> fd.data_type,
     buffer |-> fd.values_buffer,
     len |-> fd.slots,
     null_bit_buffer |-> fd.null_buffer_builder]

\* A type-id list with an inclusive upper end: 0..=n.
TypeIdRange_Inclusive(n) ==
    LET hi == ToI8(n) IN [i \in 1..(IF hi >= 0 THEN hi + 1 ELSE 0) |-> i - 1]

\* (0_i8..n as i8).collect()
TypeIdRange(n) ==
    LET hi == ToI8(n) IN [i \in 1..(IF hi > 0 THEN hi ELSE 0) |-> i - 1]

\* UnionBuilder::build(self), with the iteration order of the map as input
build(order) ==
    LET pushed == [i \in DOMAIN order |-> ChildOf(order[i], fields[order[i]])]
        children == SortByTypeId(pushed)
    IN
    /\ pc = "Open"
    /\ pc' = "Consumed"
    /\ built' = << [type_ids |-> TypeIdRange(Len(children)),
                    type_id_buffer |-> type_id_builder,
                    value_offsets_buffer |-> value_offset_builder,
                    children |-> children] >>
    /\ UNCHANGED <<len, fields, type_id_builder, value_offset_builder, result, rows>>

Next ==
    \/ \E n \in Names, T \in Types, v \in Values : append(n, T, v)
    \/ \E n \in Names, T \in Types : append_null(n, T)
    \/ \E order \in IterOrders(fields) : build(order)

Spec == Init /\ [][Next]_vars

\* ------------------------------------------------ observers of the state
\* The rows (1-based) whose call named field F.
RowsOf(F) == {i \in DOMAIN rows : rows[i].name = F}

\* The distinct field names referenced so far.  A rejected call names a field
\* that is in the map, and a field gets into the map only by a call that
\* returned Ok, so the calls recorded in rows name all of them.
Referenced == {rows[i].name : i \in DOMAIN rows}

\* The tag pushed for the first row of field F: the tag of its first append.
FirstTag(F) == type_id_builder[CHOOSE i \in RowsOf(F) : \A j \in RowsOf(F) : i <= j]

\* The tags of the fields now in the map.
Tags == {fields[n].type_id : n \in DOMAIN fields}

\* A call append_option(n, T, v) on a field bound to another type.
IsConflict(n, T) == n \in DOMAIN fields /\ fields[n].data_type # T

\* The arguments handed to the union-array constructor, once built.
Built == built[1]

\* The children handed to the constructor that carry field name F.
ChildrenOf(F) == {p \in DOMAIN Built.children : Built.children[p].name = F}

\* physical_offset(i) of row i (1-based row, 0-based slot) in the built array:
\* the recorded offset in dense layout, the row index in sparse layout.
PhysicalOffset(i) ==
    IF Built.value_offsets_buffer # <<>>
    THEN Built.value_offsets_buffer[1][i]
    ELSE i - 1

\* ----------------------------------------------------------------- claims
\* C1: a call to append or append_null on a field bound to type T1 with a type
\* T2 # T1 returns the type-conflict error and leaves row_count, the
\* discriminant sequence, the offset sequence and every field state, the named
\* field's included, as they were before the call.
C1_TypeConflictAtomic ==
    [][\A n \in Names, T \in Types, v \in OptValues :
          (IsConflict(n, T) /\ append_option(n, T, v))
              => /\ result' = "Err"
                 /\ len' = len
                 /\ type_id_builder' = type_id_builder
                 /\ value_offset_builder' = value_offset_builder
                 /\ fields' = fields]_vars

\* C2: at build every discriminant is a valid index into the tag-ordered child
\* list (0 <= d < number of children) and, in dense layout, the offset of each
\* row is below the length of the child its discriminant selects.
C2_DiscriminantsAndOffsetsInRange ==
    built # <<>> =>
        \A i \in DOMAIN Built.type_id_buffer :
            LET d == Built.type_id_buffer[i] IN
            /\ 0 <= d
            /\ d < Len(Built.children)
            /\ Built.value_offsets_buffer # <<>> =>
                   /\ 0 <= Built.value_offsets_buffer[1][i]
                   /\ Built.value_offsets_buffer[1][i] < Built.children[d + 1].len

\* C3: in every reachable state the tags of the declared fields are pairwise
\* distinct and are exactly 0..N-1, N the number of distinct field names
\* referenced so far.
C3_TagsArePermutation ==
    /\ \A m, n \in DOMAIN fields : m # n => fields[m].type_id # fields[n].type_id
    /\ Tags = 0..(Cardinality(Referenced) - 1)

\* C4: the tag of a field name is, in every later state and at build, the tag
\* its first append assigned.
C4_TagStable ==
    /\ \A n \in DOMAIN fields : fields[n].type_id = FirstTag(n)
    /\ built # <<>> =>
           \A p \in DOMAIN Built.children :
               Built.children[p].type_id = FirstTag(Built.children[p].name)

\* C5: dense layout: the offsets recorded for the successful appends to a field
\* are 0, 1, ..., k-1 in call order, i.e. the offset of a row is the number of
\* earlier rows of the same field.
C5_DenseOffsetsCount ==
    IsDense =>
        \A i \in DOMAIN rows :
            value_offset_builder[1][i] =
                Cardinality({j \in RowsOf(rows[i].name) : j < i})

\* C6: sparse layout: after any prefix of n append / append_null calls that
\* added a row, every field declared in the builder has slot_count n.
C6_SparseSlotsEqualRows ==
    ~IsDense =>
        /\ len = Len(rows)
        /\ \A n \in DOMAIN fields : fields[n].slots = len

\* A sparse builder with two fields, the second one created after the first
\* row (so it was back-filled) and the first one padded since.
C6_Witness ==
    /\ ~IsDense
    /\ len >= 2
    /\ Cardinality(DOMAIN fields) = 2
    /\ rows[1].name # rows[len].name

\* C7: sparse layout: the slot at which row i (counted from 0) is written in
\* its target field is i: at the write the field's slot_count is row_count.
C7_SparseSlotIsRow ==
    ~IsDense => \A i \in DOMAIN rows : rows[i].slot = i - 1

\* Three sparse rows: a field, a second field created at row 1, and the first
\* field written again at row 2 after being padded.
C7_Witness ==
    /\ ~IsDense
    /\ Len(rows) = 3
    /\ rows[2].name # rows[1].name
    /\ rows[3].name = rows[1].name
    /\ rows[3].slot = 2

\* C8: the discriminant sequence and, in dense layout, the offset sequence
\* have one entry per call that added a row; both lengths equal row_count in
\* every reachable state.
C8_SequenceLengths ==
    /\ Len(type_id_builder) = len
    /\ Len(rows) = len
    /\ IsDense => Len(value_offset_builder[1]) = len

\* A dense builder holding two rows right after a rejected call.
C8_Witness ==
    /\ IsDense
    /\ len = 2
    /\ result = "Err"
    /\ Len(value_offset_builder[1]) = 2

\* C9: value round trip: for every row i that appended value v to field F, the
\* state handed to build has a child for F whose tag is discriminant(i) and
\* which holds v, marked valid, at physical_offset(i).
C9_ValueRoundTrip ==
    built # <<>> =>
        \A i \in DOMAIN rows :
            rows[i].v # <<>> =>
                \E p \in ChildrenOf(rows[i].name) :
                    LET c == Built.children[p] IN
                    /\ Built.type_id_buffer[i] = c.type_id
                    /\ PhysicalOffset(i) < c.len
                    /\ c.buffer[PhysicalOffset(i) + 1] = rows[i].v[1]
                    /\ c.null_bit_buffer[PhysicalOffset(i) + 1]

\* C10: null round trip: for every row i that appended a null to field F, at
\* build the child for F has its validity bit false at physical_offset(i).
C10_NullRoundTrip ==
    built # <<>> =>
        \A i \in DOMAIN rows :
            rows[i].v = <<>> =>
                \E p \in ChildrenOf(rows[i].name) :
                    LET c == Built.children[p] IN
                    /\ PhysicalOffset(i) < c.len
                    /\ ~c.null_bit_buffer[PhysicalOffset(i) + 1]

\* The type of the first call that added a row to field F: its first binding.
FirstType(F) == rows[CHOOSE i \in RowsOf(F) : \A j \in RowsOf(F) : i <= j].type

\* C11: once a field name is bound to a type by its first append, it is bound
\* to that type in every later state.
C11_TypeBindingPermanent ==
    \A n \in DOMAIN fields : fields[n].data_type = FirstType(n)

\* C12: a call returns an error if and only if the named field is in the
\* builder with a type other than the call's; every other call returns Ok and
\* advances row_count by exactly one.
C12_ErrorIffConflict ==
    [][\A n \in Names, T \in Types, v \in OptValues :
          append_option(n, T, v)
              => /\ (result' = "Err") <=> IsConflict(n, T)
                 /\ ~IsConflict(n, T) => (result' = "Ok" /\ len' = len + 1)]_vars

\* Two rows appended to the same field with the same type, then a rejected
\* call on it.
C12_Witness ==
    /\ result = "Err"
    /\ len = 2
    /\ rows[1].name = rows[2].name
    /\ rows[1].type = rows[2].type
    /\ rows[1].name \notin DOMAIN fields

\* C13: build on a builder on which no append was ever made hands the
\* constructor an empty type-id list, an empty discriminant buffer, an empty
\* (dense) or absent (sparse) offset buffer and no children.
C13_EmptyBuild ==
    (built # <<>> /\ result = "None") =>
        /\ Built.type_ids = <<>>
        /\ Built.type_id_buffer = <<>>
        /\ Built.value_offsets_buffer \in {<<>>, << <<>> >>}
        /\ Built.value_offsets_buffer = value_offset_builder
        /\ Built.children = <<>>

\* A dense builder built before any call.
C13_Witness ==
    /\ built # <<>>
    /\ result = "None"
    /\ IsDense
    /\ pc = "Consumed"

\* C14: build produces one child per declared field, the child at position p
\* (from 0) being the field whose tag is p, and the type-id list 0..N-1.
C14_ChildrenInTagOrder ==
    built # <<>> =>
        /\ Len(Built.children) = Cardinality(DOMAIN fields)
        /\ \A n \in DOMAIN fields : Cardinality(ChildrenOf(n)) = 1
        /\ \A p \in DOMAIN Built.children : Built.children[p].type_id = p - 1
        /\ Built.type_ids = [p \in DOMAIN Built.children |-> p - 1]

\* C15: in every field state the number of values, the number of validity bits
\* and slot_count are equal, and FieldData::append_value and
\* FieldData::append_null each advance all three by exactly one.
C15_FieldLengthsAgree ==
    \A n \in DOMAIN fields :
        LET fd == fields[n]
            advanced(g) == /\ Len(g.values_buffer) = Len(fd.values_buffer) + 1
                           /\ Len(g.null_buffer_builder) = Len(fd.null_buffer_builder) + 1
                           /\ g.slots = fd.slots + 1
        IN
        /\ Len(fd.values_buffer) = fd.slots
        /\ Len(fd.null_buffer_builder) = fd.slots
        /\ advanced(FieldData_append_null(fd))
        /\ \A v \in Values : advanced(FieldData_append_value(fd, v))

\* A field holding both a value and a null.
C15_Witness ==
    \E n \in DOMAIN fields :
        /\ fields[n].slots >= 2
        /\ \E i, j \in DOMAIN fields[n].null_buffer_builder :
               fields[n].null_buffer_builder[i] /\ ~fields[n].null_buffer_builder[j]

\* C16: the failed downcast in FieldData::append_value is unreachable: no call
\* aborts, and the accumulator of every field is the one created for the type
\* the field is bound to, which is the type of every value written into it.
C16_DowncastNeverFails ==
    /\ pc # "Panicked"
    /\ \A n \in DOMAIN fields : DowncastOk(fields[n], fields[n].data_type)

\* A value of another type written to a field name after a rejected call on
\* it: the name was first used with one type and now holds a value of another.
C16_Witness ==
    /\ Len(rows) = 2
    /\ rows[1].name = rows[2].name
    /\ rows[1].type # rows[2].type
    /\ rows[2].v # <<>>
    /\ pc = "Open"

\* ------------------------------------------- a builder with many fields
\* The behaviours of a dense builder in which every call names a new field:
\* the k-th call appends the value 1 of type Int32 to the field named
\* ToString(k).  The tag of a new field is computed by the same expression in
\* both layouts; the dense one keeps every field state one slot long.
WideName(k) == ToString(k)

\* UnionBuilder::new_dense()
InitWide == Init /\ IsDense

\* append::<Int32Type>(name, 1) on the next new field name
appendWide ==
    \E k \in 1..MaxWideFields :
        /\ k = Cardinality(DOMAIN fields) + 1
        /\ append_option_upto(WideName(k), "Int32", <<1>>, MaxWideFields)

NextWide == appendWide

SpecWide == InitWide /\ [][NextWide]_vars

\* C17: the tag of a newly created field is the number of fields declared at
\* its creation, whatever that number is: it is not negative and differs from
\* the tag of every existing field, also for the 129th field and beyond.
C17_NewTagIsFieldCount ==
    [][\A n \in (DOMAIN fields') \ (DOMAIN fields) :
          /\ fields'[n].type_id = Cardinality(DOMAIN fields)
          /\ fields'[n].type_id >= 0
          /\ fields'[n].type_id \notin Tags]_vars

\* The sum of slots over the fields named in S.
RECURSIVE SumSlots(_)
SumSlots(S) ==
    IF S = {} THEN 0
    ELSE LET n == CHOOSE x \in S : TRUE IN fields[n].slots + SumSlots(S \ {n})

\* C18: dense layout: in every reachable state, rejected calls included, the
\* sum of slot_count over the fields declared in the builder equals row_count.
C18_DenseSlotsSumToRows ==
    IsDense => SumSlots(DOMAIN fields) = len

\* C19: a rejected call leaves row_count, the discriminant sequence, the
\* offset sequence and the state of every field other than the named one
\* unchanged.
C19_RejectedCallFrame ==
    [][\A n \in Names, T \in Types, v \in OptValues :
          (IsConflict(n, T) /\ append_option(n, T, v))
              => /\ len' = len
                 /\ type_id_builder' = type_id_builder
                 /\ value_offset_builder' = value_offset_builder
                 /\ \A m \in (DOMAIN fields) \ {n} :
                        m \in DOMAIN fields' /\ fields'[m] = fields[m]]_vars

\* Right after a rejected call on one of two declared fields: the other field
\* is still in the builder and both rows are still recorded.
C19_Witness ==
    /\ result = "Err"
    /\ len = 2
    /\ Cardinality(Referenced) = 2
    /\ Cardinality(DOMAIN fields) = 1
    /\ \A n \in DOMAIN fields : fields[n].slots >= 1

\* C20: sparse layout: at build, for every row i and every declared field F,
\* the validity bit of F at slot i is true if and only if row i appended a
\* present value to field name F.
C20_SparseValidity ==
    (built # <<>> /\ Built.value_offsets_buffer = <<>>) =>
        \A p \in DOMAIN Built.children : \A i \in DOMAIN rows :
            LET c == Built.children[p] IN
            /\ i <= Len(c.null_bit_buffer)
            /\ c.null_bit_buffer[i] <=> (rows[i].name = c.name /\ rows[i].v # <<>>)
====
